---- MODULE Spec2Model ----
(***************************************************************************)
(* Model of src/apppyxl.py: the three-tier value resolver (get_value /      *)
(* set_value / calculate_fallback) over the "Ship Estimator" sheet and the  *)
(* formula evaluator, the EUA instrument matcher, the EUA price autofill    *)
(* cascade, the sidebar input-processing pass, and the recursion of        *)
(* get_value / calculate_fallback executed one call at a time.              *)
(*                                                                          *)
(* Numbers are exact rationals n/d (Python floats without rounding).        *)
(* The formula evaluator (xlcalculator) is an external collaborator: it is  *)
(* modelled as a backing store `ev` written by set_cell_value, whose        *)
(* evaluate() either raises or answers with the stored value, possibly      *)
(* wrapped in single-element lists or as a non-number; whether a call       *)
(* succeeds is a nondeterministic input of each operation.                  *)
(***************************************************************************)
EXTENDS Integers, Sequences, FiniteSets, TLC

VARIABLES
    sheet,   \* ship_sheet: cell -> value (the fallback / cache store)
    ev,      \* the evaluator's backing state: cell -> value
    last,    \* the operation just performed, with its inputs and its result
    prev,    \* the operation before it
    nops,    \* operations performed
    pc,               \* autofill cascade: the step to run next
    prices,           \* the fetched quote list
    vertis_item,      \* the record pick_eua_3m_item chose
    ticker_price,     \* its price as a float
    autofill_source,  \* the source label
    hist,             \* what the cascade's run did so far
    fpc,     \* sidebar pass: the widget to process next
    fhist,   \* what the sidebar pass did so far
    stack    \* the frames of get_value / calculate_fallback being executed

callVars == <<last, prev, nops>>

cascadeVars == <<pc, prices, vertis_item, ticker_price, autofill_source, hist>>

formVars == <<fpc, fhist>>

vars == <<sheet, ev, callVars, cascadeVars, formVars, stack>>

(* ---------------------------------------------------------------- values *)

RECURSIVE Gcd(_, _)
Gcd(a, b) == IF b = 0 THEN a ELSE Gcd(b, a % b)

Abs(x) == IF x < 0 THEN -x ELSE x

Sign(x) == IF x < 0 THEN -1 ELSE 1

\* a Python int or float, kept as the reduced fraction n/d with d > 0
Num(n, d) ==
    LET g == Gcd(Abs(n), Abs(d))
    IN  [k |-> "num", n |-> (Sign(d) * n) \div g, d |-> Abs(d) \div g]

Whole(n) == [k |-> "num", n |-> n, d |-> 1]

None == [k |-> "none"]

\* a Python str; d = 0 marks a text float() cannot parse, else float(text) = n/d
Text(s) == [k |-> "text", s |-> s, n |-> 0, d |-> 0]

NumText(s, n, d) == [k |-> "text", s |-> s, n |-> n, d |-> d]

\* a Python list
List(items) == [k |-> "list", items |-> items]

\* isinstance(val, (int, float))
IsNum(v) == v.k = "num"

IsZero(v) == v.k = "num" /\ v.n = 0

Add(a, b) ==
    LET g == Gcd(a.d, b.d)
    IN  Num(a.n * (b.d \div g) + b.n * (a.d \div g), (a.d \div g) * b.d)

Neg(a) == [k |-> "num", n |-> -a.n, d |-> a.d]

Sub(a, b) == Add(a, Neg(b))

Mul(a, b) ==
    LET g1 == Gcd(Abs(a.n), b.d)
        g2 == Gcd(Abs(b.n), a.d)
    IN  [k |-> "num", n |-> (a.n \div g1) * (b.n \div g2),
                      d |-> (a.d \div g2) * (b.d \div g1)]

\* a / b; b = 0 raises ZeroDivisionError in Python, which the guard of
\* calculate_fallback keeps out of reach: None stands for it here
Div(a, b) == IF IsZero(b) THEN None ELSE Mul(a, Num(b.d, b.n))

\* Python `x or 0`: None and 0 are falsy
OrZero(v) == IF v = None \/ IsZero(v) THEN Whole(0) ELSE v

(* ----------------------------------------------------------------- cells *)

\* cells of the "Ship Estimator" sheet that only set_value writes (Inputs)
InputCells == {"B6", "B7", "B8", "B10", "B11", "B12", "B13", "B14",
               "B16", "B17", "B19", "B21", "B23", "B26"}

\* cells calculate_fallback has a formula for, in the order of its branches
FormulaOrder == <<"B18", "E6", "E7", "E8", "E9", "E10", "E11", "E12", "E13",
                  "E14", "E15", "E16", "E17", "E18", "E19", "E21">>

FormulaCells == {FormulaOrder[i] : i \in 1..Len(FormulaOrder)}

Cells == InputCells \cup FormulaCells

\* fuel_options (LookupTables!A43:A64) and the coefficient beside each name
fuel_options == <<"HFO", "MDO">>

FuelCoefficient == <<Whole(2), Whole(1)>>

\* fuel_options.index(fuel_type) if fuel_type in fuel_options else 0  (0-based)
CfRow(fuel_type) ==
    IF fuel_type.k = "text" /\ \E i \in 1..Len(fuel_options) : fuel_options[i] = fuel_type.s
    THEN (CHOOSE i \in 1..Len(fuel_options) :
             /\ fuel_options[i] = fuel_type.s
             /\ \A j \in 1..(i - 1) : fuel_options[j] # fuel_type.s) - 1
    ELSE 0

(* -------------------------------------------------------------- resolver *)

\* _flatten: unwrap single-element lists
RECURSIVE _flatten(_)
_flatten(val) ==
    IF val.k = "list" /\ Len(val.items) = 1 THEN _flatten(val.items[1]) ELSE val

\* safe_float: float(val), 0.0 for None and for what float() rejects
safe_float(val) ==
    CASE val.k = "num"  -> val
      [] val.k = "none" -> Whole(0)
      [] val.k = "text" -> IF val.d = 0 THEN Whole(0) ELSE Num(val.n, val.d)
      [] OTHER          -> Whole(0)

\* set_value with the sheet written inside the try, after the evaluator
set_value_TryFirst(S, cell, value, ok) ==
    [sheet |-> IF ok THEN [S.sheet EXCEPT ![cell] = value] ELSE S.sheet,
     ev    |-> IF ok THEN [S.ev EXCEPT ![cell] = value] ELSE S.ev]

\* set_value that falls back to the sheet only when the evaluator refuses
set_value_SheetOnRaise(S, cell, value, ok) ==
    [sheet |-> IF ok THEN S.sheet ELSE [S.sheet EXCEPT ![cell] = value],
     ev    |-> IF ok THEN [S.ev EXCEPT ![cell] = value] ELSE S.ev]

\* set_value: the sheet is always written; the evaluator's set_cell_value may
\* raise (ok = FALSE), which is swallowed and leaves its state as it was
set_value(S, cell, value, ok) ==
    [sheet |-> [S.sheet EXCEPT ![cell] = value],
     ev    |-> IF ok THEN [S.ev EXCEPT ![cell] = value] ELSE S.ev]

\* ev.evaluate(cell) under oracle o: o.ans[cell] says how this call goes
Evaluate(S, cell, o) ==
    CASE o.ans[cell] = "raise"   -> [raised |-> TRUE,  val |-> None]
      [] o.ans[cell] = "stored"  -> [raised |-> FALSE, val |-> S.ev[cell]]
      [] o.ans[cell] = "wrapped" -> [raised |-> FALSE, val |-> List(<<List(<<S.ev[cell]>>)>>)]
      [] OTHER                   -> [raised |-> FALSE, val |-> List(<<S.ev[cell], S.ev[cell]>>)]

\* the guard testing the raw cells for None instead of the sum for 0
NoVoyageDays_RawNone(sh) == sh["B16"] = None /\ sh["B17"] = None

\* total_days == 0, with sea_days and port_days read by safe_float
NoVoyageDays(sh) == IsZero(Add(safe_float(sh["B16"]), safe_float(sh["B17"])))

RECURSIVE get_value(_, _, _)
RECURSIVE calculate_fallback(_, _, _)

\* get_value preferring the cached value to the fallback formula
get_value_CacheFirst(S, cell, o) ==
    LET a == Evaluate(S, cell, o)
        f == _flatten(a.val)
        cached == S.sheet[cell]
    IN  IF ~a.raised /\ IsNum(f)
        THEN [S |-> S, val |-> f, tier |-> 1, sub1 |-> FALSE]
        ELSE IF IsNum(cached)
        THEN [S |-> S, val |-> cached, tier |-> 3, sub1 |-> FALSE]
        ELSE LET fb == calculate_fallback(S, cell, o)
             IN  IF fb.val # None
                 THEN [S |-> set_value(fb.S, cell, fb.val, o.wok), val |-> fb.val,
                       tier |-> 2, sub1 |-> fb.sub1]
                 ELSE [S |-> fb.S, val |-> None, tier |-> 3, sub1 |-> fb.sub1]

\* get_value: [S: the stores afterwards, val: the result, tier: the tier that
\* answered, sub1: some nested get_value was answered by the evaluator]
get_value(S, cell, o) ==
    LET a == Evaluate(S, cell, o)
        f == _flatten(a.val)
    IN  IF ~a.raised /\ IsNum(f)
        THEN [S |-> S, val |-> f, tier |-> 1, sub1 |-> FALSE]
        ELSE LET fb == calculate_fallback(S, cell, o)
             IN  IF fb.val # None
                 THEN [S |-> set_value(fb.S, cell, fb.val, o.wok), val |-> fb.val,
                       tier |-> 2, sub1 |-> fb.sub1]
                 ELSE LET cached == fb.S.sheet[cell]
                      IN  [S |-> fb.S, val |-> IF IsNum(cached) THEN cached ELSE None,
                           tier |-> 3, sub1 |-> fb.sub1]

\* the dependency taken from the sheet's cached value when there is one
Scaled_Memo(S, c, k, o) ==
    LET r == get_value(S, c, o)
    IN  IF IsNum(S.sheet[c])
        THEN [S |-> S, val |-> Mul(OrZero(S.sheet[c]), k), sub1 |-> FALSE]
        ELSE [S |-> r.S, val |-> Mul(OrZero(r.val), k), sub1 |-> r.sub1 \/ r.tier = 1]

\* (get_value(c) or 0) * k
Scaled(S, c, k, o) ==
    LET r == get_value(S, c, o)
    IN  [S |-> r.S, val |-> Mul(OrZero(r.val), k), sub1 |-> r.sub1 \/ r.tier = 1]

\* (get_value(c1) or 0) - (get_value(c2) or 0)
Minus(S, c1, c2, o) ==
    LET r1 == get_value(S, c1, o)
        r2 == get_value(r1.S, c2, o)
    IN  [S |-> r2.S, val |-> Sub(OrZero(r1.val), OrZero(r2.val)),
         sub1 |-> r1.sub1 \/ r1.tier = 1 \/ r2.sub1 \/ r2.tier = 1]

\* liability_pct = [0.4, 0.7, 1.0, 1.0][year - 2025]
liability_pct(cell) ==
    CASE cell = "E16" -> Num(4, 10)
      [] cell = "E17" -> Num(7, 10)
      [] OTHER        -> Whole(1)

calculate_fallback(S, cell, o) ==
    LET sf(c)      == safe_float(S.sheet[c])
        sea_days   == sf("B16")
        port_days  == sf("B17")
        total_days == Add(sea_days, port_days)
        total_fuel == Add(Mul(sf("B10"), sea_days), Mul(sf("B11"), port_days))
        eu_share   == Add(sf("B12"), Mul(sf("B13"), Num(1, 2)))
        pure(v)    == [S |-> S, val |-> v, sub1 |-> FALSE]
    IN  IF NoVoyageDays(S.sheet) THEN pure(None)
        ELSE CASE cell = "B18" -> pure(Add(Mul(sea_days, sf("B7")), Mul(port_days, sf("B8"))))
               [] cell = "E6"  -> pure(Div(total_fuel, total_days))
               [] cell = "E7"  -> pure(Mul(total_fuel, FuelCoefficient[CfRow(S.sheet["B19"]) + 1]))
               [] cell = "E8"  -> Scaled(S, "E7", Sub(Whole(1), sf("B21")), o)
               [] cell = "E9"  -> Minus(S, "E7", "E8", o)
               [] cell = "E10" -> Scaled(S, "E7", eu_share, o)
               [] cell = "E11" -> Scaled(S, "E10", Mul(sf("B26"), Num(4, 10)), o)
               [] cell = "E12" -> Scaled(S, "E9", eu_share, o)
               [] cell = "E13" -> Scaled(S, "E7", Num(150419, 100000), o)
               [] cell = "E14" -> Scaled(S, "E13", Sub(Whole(1), Num(412, 10000)), o)
               [] cell = "E15" -> Minus(S, "E13", "E14", o)
               [] cell \in {"E16", "E17", "E18", "E19"} ->
                      Scaled(S, "E15", Mul(sf("B26"), liability_pct(cell)), o)
               [] cell = "E21" -> Scaled(S, "E7", Mul(sf("B23"), sf("B26")), o)
               [] OTHER        -> pure(None)

Range(s) == {s[i] : i \in 1..Len(s)}

(* ----------------------------------------------------- instrument matcher *)

UpperCase == <<"A","B","C","D","E","F","G","H","I","J","K","L","M",
               "N","O","P","Q","R","S","T","U","V","W","X","Y","Z">>

LowerCase == <<"a","b","c","d","e","f","g","h","i","j","k","l","m",
               "n","o","p","q","r","s","t","u","v","w","x","y","z">>

Digits == {"0","1","2","3","4","5","6","7","8","9"}

\* \s
IsSpace(c) == c \in {" ", "\t"}

WordChars == Range(UpperCase) \cup Range(LowerCase) \cup Digits \cup {"_"}

\* \w
IsWordChar(c) == c \in WordChars

\* re.IGNORECASE: every character compared in lower case
Lower(c) ==
    IF c \in Range(UpperCase)
    THEN LowerCase[CHOOSE i \in 1..26 : UpperCase[i] = c]
    ELSE c

LowerAll(s) == [i \in 1..Len(s) |-> Lower(s[i])]

\* str.strip()
RECURSIVE Strip(_)
Strip(s) ==
    IF s # <<>> /\ IsSpace(Head(s)) THEN Strip(Tail(s))
    ELSE IF s # <<>> /\ IsSpace(s[Len(s)]) THEN Strip(SubSeq(s, 1, Len(s) - 1))
    ELSE s

\* the literal lit stands in s at position i
At(s, i, lit) ==
    /\ i >= 1 /\ i + Len(lit) - 1 <= Len(s)
    /\ \A j \in 1..Len(lit) : s[i + j - 1] = lit[j]

WordAt(s, p) == p >= 1 /\ p <= Len(s) /\ IsWordChar(s[p])

\* \b between positions p and p + 1 of s
Boundary(s, p) == WordAt(s, p) # WordAt(s, p + 1)

\* \beua\b beginning at position i
EuaWord(s, i) == Boundary(s, i - 1) /\ At(s, i, <<"e","u","a">>) /\ Boundary(s, i + 2)

\* ^\s* : everything before position i is white space
OnlySpaceBefore(s, i) == \A j \in 1..(i - 1) : IsSpace(s[j])

\* rx.search(name) for the pattern numbered pat: 1..4 are EUA_3M_PATTERNS,
\* 5..6 are EUA_FALLBACK_PATTERNS
Search(pat, s) ==
    LET P == 1..Len(s)
    IN  CASE pat = 1 ->   \* \beua\b.*\b3m\b
                \E i \in P, j \in P :
                    /\ EuaWord(s, i) /\ j >= i + 3
                    /\ Boundary(s, j - 1) /\ At(s, j, <<"3","m">>) /\ Boundary(s, j + 1)
          [] pat = 2 ->   \* \beua-?3m\b
                \E i \in P :
                    /\ Boundary(s, i - 1) /\ At(s, i, <<"e","u","a">>)
                    /\ \/ At(s, i + 3, <<"3","m">>) /\ Boundary(s, i + 4)
                       \/ At(s, i + 3, <<"-","3","m">>) /\ Boundary(s, i + 5)
          [] pat = 3 ->   \* \beua\b.*\b3[-\s]?month(s)?\b
                \E i \in P, j \in P, sep \in {0, 1} :
                    /\ EuaWord(s, i) /\ j >= i + 3
                    /\ Boundary(s, j - 1) /\ At(s, j, <<"3">>)
                    /\ sep = 1 => (j + 1 <= Len(s) /\ (s[j + 1] = "-" \/ IsSpace(s[j + 1])))
                    /\ At(s, j + 1 + sep, <<"m","o","n","t","h">>)
                    /\ \/ Boundary(s, j + 5 + sep)
                       \/ At(s, j + 6 + sep, <<"s">>) /\ Boundary(s, j + 6 + sep)
          [] pat = 4 ->   \* \beua\b.*\bq\+?1\b
                \E i \in P, j \in P :
                    /\ EuaWord(s, i) /\ j >= i + 3
                    /\ Boundary(s, j - 1) /\ At(s, j, <<"q">>)
                    /\ \/ At(s, j + 1, <<"1">>) /\ Boundary(s, j + 1)
                       \/ At(s, j + 1, <<"+","1">>) /\ Boundary(s, j + 2)
          [] pat = 5 ->   \* ^\s*eua\s*$
                \E i \in P :
                    /\ OnlySpaceBefore(s, i) /\ At(s, i, <<"e","u","a">>)
                    /\ \A j \in (i + 3)..Len(s) : IsSpace(s[j])
          [] OTHER ->     \* ^\s*eua\b
                \E i \in P :
                    /\ OnlySpaceBefore(s, i) /\ At(s, i, <<"e","u","a">>)
                    /\ Boundary(s, i + 2)

EUA_3M_PATTERNS == <<1, 2, 3, 4>>

EUA_FALLBACK_PATTERNS == <<5, 6>>

\* no record: a value no quote record equals
NoItem == [name |-> <<>>, price |-> None, none |-> TRUE]

Quote(name, price) == [name |-> name, price |-> price, none |-> FALSE]

\* product names of the quote feed, character by character
EuaSpot     == <<"E","U","A"," ","S","p","o","t">>
Eua3M       == <<"E","U","A"," ","3","M">>
EuaDec25    == <<"E","U","A"," ","D","e","c","-","2","5">>
EuaQ1       == <<" ","e","u","a"," ","Q","+","1">>
EuaDash3M   == <<"E","U","A","-","3","m">>
Eua3Months  == <<"E","U","A"," ","f","w","d"," ","3","-","M","o","n","t","h","s">>
Uka3M       == <<"U","K","A"," ","3","M">>
Neua3M      == <<"N","E","U","A"," ","3","M">>
EuaBare     == <<"e","u","a"," ">>

\* the quote records a fetch may return: numeric, textual, missing and
\* unparsable prices
Quotes ==
    {Quote(EuaSpot, Whole(3)), Quote(Eua3M, Num(135, 2)), Quote(EuaDec25, Whole(5)),
     Quote(EuaQ1, NumText("70.10", 701, 10)), Quote(EuaDash3M, None),
     Quote(Eua3Months, Text("n/a")), Quote(Uka3M, Whole(7)),
     Quote(Neua3M, Whole(6)), Quote(EuaBare, Whole(2)), Quote(<<>>, Whole(8))}

\* for each record of the feed, the patterns rx.search finds in
\* str(it.get("product_name", "")).strip(), worked out once
PatternsFound ==
    [q \in Quotes |-> {pat \in 1..6 : Search(pat, LowerAll(Strip(q.name)))}]

NameMatches(pat, it) == pat \in PatternsFound[it]

\* _match_first with the loops exchanged: records outside, patterns inside
RECURSIVE MatchRecordsFirst(_, _, _, _)
MatchRecordsFirst(items, patterns, p, i) ==
    IF i > Len(items) THEN NoItem
    ELSE IF p > Len(patterns) THEN MatchRecordsFirst(items, patterns, 1, i + 1)
    ELSE IF NameMatches(patterns[p], items[i]) THEN items[i]
    ELSE MatchRecordsFirst(items, patterns, p + 1, i)

\* _match_first from pattern p, record i on: patterns outside, records inside
RECURSIVE MatchFrom(_, _, _, _)
MatchFrom(items, patterns, p, i) ==
    IF p > Len(patterns) THEN NoItem
    ELSE IF i > Len(items) THEN MatchFrom(items, patterns, p + 1, 1)
    ELSE IF NameMatches(patterns[p], items[i]) THEN items[i]
    ELSE MatchFrom(items, patterns, p, i + 1)

_match_first_RecordsFirst(items, patterns) == MatchRecordsFirst(items, patterns, 1, 1)

_match_first(items, patterns) == MatchFrom(items, patterns, 1, 1)

\* it or _match_first(items, EUA_FALLBACK_PATTERNS)
pick_eua_3m_item(items) ==
    LET it == _match_first(items, EUA_3M_PATTERNS)
    IN  IF it # NoItem THEN it ELSE _match_first(items, EUA_FALLBACK_PATTERNS)

(* ------------------------------------------------------------ operations *)

\* the calls of calculate_fallback with E7 computed from E9
Calls_Cyclic(cell) ==
    CASE cell \in {"E8", "E10", "E13", "E21"}         -> <<"E7">>
      [] cell = "E7"                                  -> <<"E9">>
      [] cell = "E9"                                  -> <<"E7", "E8">>
      [] cell = "E11"                                 -> <<"E10">>
      [] cell = "E12"                                 -> <<"E9">>
      [] cell = "E14"                                 -> <<"E13">>
      [] cell = "E15"                                 -> <<"E13", "E14">>
      [] cell \in {"E16", "E17", "E18", "E19"}        -> <<"E15">>
      [] OTHER                                        -> <<>>

\* the cells calculate_fallback(cell) calls get_value on
Calls(cell) ==
    CASE cell \in {"E8", "E10", "E13", "E21"}         -> <<"E7">>
      [] cell = "E9"                                  -> <<"E7", "E8">>
      [] cell = "E11"                                 -> <<"E10">>
      [] cell = "E12"                                 -> <<"E9">>
      [] cell = "E14"                                 -> <<"E13">>
      [] cell = "E15"                                 -> <<"E13", "E14">>
      [] cell \in {"E16", "E17", "E18", "E19"}        -> <<"E15">>
      [] OTHER                                        -> <<>>

RECURSIVE Closure(_)
Closure(cell) == Range(Calls(cell)) \cup UNION {Closure(c) : c \in Range(Calls(cell))}

AnswerKinds == {"raise", "stored", "wrapped", "multi"}

\* how the evaluator goes during one resolve of m: `top` for m itself, the nested
\* cells in `up` answer with their stored value and the others raise; wok says
\* whether the evaluator accepts the write-back of a computed value
Oracle(m, top, up, wok) ==
    [ans |-> [c \in Cells |-> IF c = m THEN top
                              ELSE IF c \in up THEN "stored" ELSE "raise"],
     wok |-> wok]

\* the nested evaluator outcomes tried: all raise, all answer, one direct call answers
NestedUp(m) == {{}, Closure(m)} \cup {{c} : c \in Range(Calls(m))}

\* a write-back can only happen for a cell with a fallback formula
WriteBack(m) == IF m \in FormulaCells THEN BOOLEAN ELSE {TRUE}

MaxOps == 2

AssignValues == {Whole(0), Whole(2), None, Text("MDO"), NumText("2", 2, 1)}

\* op: the operation; cell, val: its arguments; top: how the evaluator answered
\* for cell; ok: whether the evaluator accepted the write; res, tier, sub1: what
\* get_value returned
NoOp == [op |-> "init", cell |-> "B6", val |-> None, top |-> "raise", ok |-> TRUE,
         res |-> None, tier |-> 0, sub1 |-> FALSE]

\* assign(m, v): set_value(m, v)
Assign(m, v, ok) ==
    /\ nops < MaxOps
    /\ LET S == set_value([sheet |-> sheet, ev |-> ev], m, v, ok)
       IN  /\ sheet' = S.sheet
           /\ ev' = S.ev
    /\ last' = [NoOp EXCEPT !.op = "assign", !.cell = m, !.val = v, !.ok = ok]
    /\ prev' = last
    /\ nops' = nops + 1
    /\ UNCHANGED <<cascadeVars, formVars, stack>>

\* resolve(m): get_value(m)
Resolve(m, top, up, wok) ==
    /\ nops < MaxOps
    /\ LET r == get_value([sheet |-> sheet, ev |-> ev], m, Oracle(m, top, up, wok))
       IN  /\ sheet' = r.S.sheet
           /\ ev' = r.S.ev
           /\ last' = [NoOp EXCEPT !.op = "resolve", !.cell = m, !.top = top, !.ok = wok,
                                   !.res = r.val, !.tier = r.tier, !.sub1 = r.sub1]
    /\ prev' = last
    /\ nops' = nops + 1
    /\ UNCHANGED <<cascadeVars, formVars, stack>>

\* the workbook as loaded: Inputs of a small voyage, the formula cells' cached
\* results either missing or a stale number, days zero or not
InitSheet(days, cached) ==
    [c \in Cells |->
        CASE c = "B6"  -> Text("Tanker")
          [] c = "B19" -> Text("HFO")
          [] c \in {"B16", "B17"} -> days
          [] c \in {"B12", "B13", "B21", "B23"} -> Num(1, 2)
          [] c = "B14" -> Whole(0)
          [] c \in {"B7", "B8", "B10", "B11", "B26"} -> Whole(1)
          [] OTHER -> cached]

\* the sidebar pass so far: set, the cells it assigned through a widget or the
\* ship profile; recomputed, whether set_value("B18", calculate_fallback("B18"))
\* ran; edited, whether the Annual AVG NM field itself was assigned
NoPass == [set |-> {}, recomputed |-> FALSE, edited |-> FALSE]

\* nothing called yet, the cascade and the sidebar pass not yet run
InitRun ==
    /\ last = NoOp
    /\ prev = NoOp
    /\ nops = 0
    /\ pc = "primary"
    /\ prices = <<>>
    /\ vertis_item = NoItem
    /\ ticker_price = None
    /\ autofill_source = "None"
    /\ hist = [fetch |-> "no", scrape |-> "no", wrote |-> <<>>, start |-> None,
               estart |-> None]
    /\ fpc = 1
    /\ fhist = NoPass
    /\ stack = <<>>

Init ==
    /\ \E days \in {Whole(0), Whole(1)}, cached \in {Whole(4)} :
          /\ sheet = InitSheet(days, cached)
          /\ ev = InitSheet(days, cached)
    /\ InitRun

Next ==
    \/ \E m \in Cells, v \in AssignValues, ok \in BOOLEAN : Assign(m, v, ok)
    \/ \E m \in Cells, top \in AnswerKinds :
          \E up \in NestedUp(m), wok \in WriteBack(m) : Resolve(m, top, up, wok)

Spec == Init /\ [][Next]_vars

(* -------------------------------------------------------- autofill cascade *)

MaxItems == 3

\* the lists of at most n distinct quote records
RECURSIVE QuoteLists(_)
QuoteLists(n) ==
    IF n = 0 THEN {<<>>}
    ELSE LET shorter == QuoteLists(n - 1)
         IN  shorter \cup {Append(l, q) : l \in {x \in shorter : Len(x) = n - 1}, q \in Quotes}

DistinctLists == {l \in QuoteLists(MaxItems) : Cardinality(Range(l)) = Len(l)}

\* float(Decimal(str(price))) raises InvalidOperation
Unparsable(price) == price.k \notin {"num", "text"} \/ (price.k = "text" /\ price.d = 0)

\* float(Decimal(str(price)))
PriceFloat(price) == Num(price.n, price.d)

\* if ticker_price is None
SecondaryDue_Always(tp) == TRUE

SecondaryDue(tp) == tp = None

\* if get_value("B26") is None
DefaultDue_Always(val) == TRUE

DefaultDue(val) == val = None

\* the fixed default of the last step
DefaultPrice == Num(676, 10)

\* what get_live_eua_price returns: a float, or None after any exception
ScrapeResults == {None, Num(681, 10)}

Stores == [sheet |-> sheet, ev |-> ev]

\* how the primary step can go: no usable token, the fetch raising, or a list
FetchOutcomes ==
    {[kind |-> k, items |-> <<>>] : k \in {"skip", "raise"}}
        \cup {[kind |-> "ok", items |-> l] : l \in DistinctLists}

\* lines 260-270: the token test, the fetch, the matcher and the assignment
Primary(outcome, ok) ==
    /\ pc = "primary"
    /\ pc' = "secondary"
    /\ IF outcome.kind = "skip"
       THEN /\ hist' = [hist EXCEPT !.fetch = "skipped", !.start = sheet["B26"],
                                 !.estart = ev["B26"]]
            /\ UNCHANGED <<sheet, ev, prices, vertis_item, ticker_price, autofill_source>>
       ELSE IF outcome.kind = "raise"
       THEN /\ hist' = [hist EXCEPT !.fetch = "raised", !.start = sheet["B26"],
                                 !.estart = ev["B26"]]
            /\ UNCHANGED <<sheet, ev, prices, vertis_item, ticker_price, autofill_source>>
       ELSE LET it == pick_eua_3m_item(outcome.items)
            IN  /\ prices' = outcome.items
                /\ vertis_item' = it
                /\ IF it # NoItem /\ it.price # None /\ ~Unparsable(it.price)
                   THEN LET S == set_value(Stores, "B26", PriceFloat(it.price), ok)
                        IN  /\ ticker_price' = PriceFloat(it.price)
                            /\ sheet' = S.sheet
                            /\ ev' = S.ev
                            /\ autofill_source' = "Vertis 3-Month"
                            /\ hist' = [hist EXCEPT !.fetch = "ok", !.start = sheet["B26"],
                                 !.estart = ev["B26"],
                                                    !.wrote = Append(@, "primary")]
                   ELSE /\ hist' = [hist EXCEPT !.fetch = "ok", !.start = sheet["B26"],
                                 !.estart = ev["B26"]]
                        /\ UNCHANGED <<sheet, ev, ticker_price, autofill_source>>
    /\ UNCHANGED <<callVars, formVars, stack>>

\* lines 272-276: the spot-price scrape
Secondary(lp, ok) ==
    /\ pc = "secondary"
    /\ pc' = "default"
    /\ IF ~SecondaryDue(ticker_price)
       THEN /\ hist' = [hist EXCEPT !.scrape = "skipped"]
            /\ UNCHANGED <<sheet, ev, autofill_source>>
       ELSE IF lp = None
       THEN /\ hist' = [hist EXCEPT !.scrape = "failed"]
            /\ UNCHANGED <<sheet, ev, autofill_source>>
       ELSE LET S == set_value(Stores, "B26", lp, ok)
            IN  /\ sheet' = S.sheet
                /\ ev' = S.ev
                /\ autofill_source' = "EEX Spot"
                /\ hist' = [hist EXCEPT !.scrape = "ok", !.wrote = Append(@, "secondary")]
    /\ UNCHANGED <<callVars, prices, vertis_item, ticker_price, formVars, stack>>

\* lines 278-279: the default
Default(top, ok) ==
    /\ pc = "default"
    /\ pc' = "done"
    /\ LET r == get_value(Stores, "B26", Oracle("B26", top, {}, TRUE))
       IN  /\ last' = [NoOp EXCEPT !.op = "resolve", !.cell = "B26", !.top = top,
                                   !.ok = ok,
                                   !.res = r.val, !.tier = r.tier]
           /\ IF DefaultDue(r.val)
              THEN LET S == set_value(r.S, "B26", DefaultPrice, ok)
                   IN  /\ sheet' = S.sheet
                       /\ ev' = S.ev
                       /\ hist' = [hist EXCEPT !.wrote = Append(@, "default")]
              ELSE /\ sheet' = r.S.sheet
                   /\ ev' = r.S.ev
                   /\ UNCHANGED hist
    /\ UNCHANGED <<prev, nops, prices, vertis_item, ticker_price, autofill_source,
                   formVars, stack>>

\* the workbook's EUA price before the cascade: a number, nothing, or a text
InitAutofill ==
    /\ \E price \in {Whole(1), None, Text("tbd")}, epr \in {Whole(1), None} :
          /\ sheet = [InitSheet(Whole(1), Whole(4)) EXCEPT !["B26"] = price]
          /\ ev = [InitSheet(Whole(1), Whole(4)) EXCEPT !["B26"] = epr]
    /\ InitRun

NextAutofill ==
    \/ pc = "primary" /\ \E outcome \in FetchOutcomes, ok \in BOOLEAN : Primary(outcome, ok)
    \/ pc = "secondary" /\ \E lp \in ScrapeResults, ok \in BOOLEAN : Secondary(lp, ok)
    \/ pc = "default" /\ \E top \in AnswerKinds, ok \in BOOLEAN : Default(top, ok)

SpecAutofill == InitAutofill /\ [][NextAutofill]_vars

(* ------------------------------------------------------ sidebar input pass *)

\* The pass is followed through the widgets that assign B18 or a cell its
\* formula reads, and the fuel type; the sliders and percentage fields (lines
\* 326-337, 347-362) assign only B12, B13, B14, B21, B23 and B26.

\* ship_type_list (LookupTables!A2:A39)
ship_type_list == <<"Tanker", "Bulker", "Ferry">>

\* dependents, in the order of the dict
dependents == <<"B7", "B8", "B10", "B11", "B16", "B17">>

\* get_range_values(range_name) for the range of each dependent cell: one value
\* per ship type; a range may be shorter than the list and may hold a blank
get_range_values(cell) ==
    CASE cell = "B7"  -> <<Whole(1), Whole(2), Whole(1)>>
      [] cell = "B8"  -> <<Whole(1), Whole(0), Whole(1)>>
      [] cell = "B10" -> <<Whole(1), Whole(2), None>>
      [] cell = "B11" -> <<Whole(1), Whole(1)>>
      [] cell = "B16" -> <<Whole(1), Whole(2), Whole(0)>>
      [] OTHER        -> <<Whole(1), Whole(0), Whole(0)>>

\* num_inputs, in the order of the dict
num_inputs == <<"B7", "B8", "B10", "B11", "B16", "B17", "B18">>

\* the widgets in the order the pass reaches them: the ship type, the fields of
\* num_inputs, the fuel type; FormDone is the position after the last
FuelStep == Len(num_inputs) + 2

FormDone == FuelStep + 1

\* the cells whose change is followed by a recomputation of B18
RecomputeCells == {"B7", "B8", "B16", "B17"}

\* what the user can type into a number field
FieldValues == {Whole(0), Whole(2)}

\* how the evaluator answers the pass's get_value calls
FormAnswers == {"raise", "stored"}

\* the change handlers without the recomputation
Recompute_Skip(S, ok) == S

\* set_value("B18", calculate_fallback("B18"))
Recompute(S, ok) ==
    set_value(S, "B18",
              calculate_fallback(S, "B18", Oracle("B18", "raise", {}, ok)).val, ok)

\* the loop over dependents from position i on, for the ship at ship_index
RECURSIVE ApplyProfile(_, _, _, _)
ApplyProfile(S, i, ship_index, ok) ==
    IF i > Len(dependents) THEN [S |-> S, set |-> {}]
    ELSE LET cell   == dependents[i]
             values == get_range_values(cell)
             hit    == ship_index <= Len(values) /\ IsNum(values[ship_index])
             S1     == IF hit THEN set_value(S, cell, values[ship_index], ok) ELSE S
             rest   == ApplyProfile(S1, i + 1, ship_index, ok)
         IN  [S |-> rest.S, set |-> rest.set \cup (IF hit THEN {cell} ELSE {})]

\* lines 286-306: the ship type selectbox and its change handler
ShipType(ship_index, ok) ==
    /\ fpc = 1
    /\ fpc' = 2
    /\ LET current_ship_type  == sheet["B6"]
           selected_ship_type == Text(ship_type_list[ship_index])
       IN  IF selected_ship_type # current_ship_type
           THEN LET S0 == set_value(Stores, "B6", selected_ship_type, ok)
                    p  == ApplyProfile(S0, 1, ship_index, ok)
                    S1 == Recompute(p.S, ok)
                IN  /\ sheet' = S1.sheet
                    /\ ev' = S1.ev
                    /\ fhist' = [fhist EXCEPT !.set = @ \cup {"B6"} \cup p.set,
                                              !.recomputed = TRUE]
           ELSE UNCHANGED <<sheet, ev, fhist>>
    /\ UNCHANGED <<callVars, cascadeVars, stack>>

\* lines 318-324: one pass of the loop over num_inputs; typed is what the user
\* entered in the field, None when the field was left alone
NumInput(top, typed, ok) ==
    /\ fpc \in 2..(FuelStep - 1)
    /\ fpc' = fpc + 1
    /\ LET cell        == num_inputs[fpc - 1]
           r           == get_value(Stores, cell, Oracle(cell, top, {}, ok))
           default_val == OrZero(r.val)
           new_val     == IF typed = None THEN default_val ELSE typed
       IN  IF new_val # default_val
           THEN LET S1 == set_value(r.S, cell, new_val, ok)
                    S2 == IF cell \in RecomputeCells THEN Recompute(S1, ok) ELSE S1
                IN  /\ sheet' = S2.sheet
                    /\ ev' = S2.ev
                    /\ fhist' = [fhist EXCEPT
                                   !.set = @ \cup {cell},
                                   !.recomputed = @ \/ cell \in RecomputeCells,
                                   !.edited = cell = "B18"]
           ELSE /\ sheet' = r.S.sheet
                /\ ev' = r.S.ev
                /\ UNCHANGED fhist
    /\ UNCHANGED <<callVars, cascadeVars, stack>>

\* lines 338-345: the fuel type selectbox and its change handler
FuelType(fuel_index, ok) ==
    /\ fpc = FuelStep
    /\ fpc' = FormDone
    /\ LET current_fuel == sheet["B19"]
           fuel_type    == Text(fuel_options[fuel_index])
       IN  IF fuel_type # current_fuel
           THEN LET S1 == set_value(Stores, "B19", fuel_type, ok)
                IN  /\ sheet' = S1.sheet
                    /\ ev' = S1.ev
                    /\ fhist' = [fhist EXCEPT !.set = @ \cup {"B19"}]
           ELSE UNCHANGED <<sheet, ev, fhist>>
    /\ UNCHANGED <<callVars, cascadeVars, stack>>

\* the workbook when a pass begins: the annual distance as the formula gives it,
\* or as an earlier pass left it after the Annual AVG NM field was edited (the
\* workbook and the evaluator are kept across passes by st.cache_resource)
InitForm ==
    /\ \E distance \in {Whole(2), Whole(4)} :
          /\ sheet = [InitSheet(Whole(1), Whole(4)) EXCEPT !["B18"] = distance]
          /\ ev = [InitSheet(Whole(1), Whole(4)) EXCEPT !["B18"] = distance]
    /\ InitRun

NextForm ==
    \/ \E ship_index \in 1..Len(ship_type_list), ok \in BOOLEAN : ShipType(ship_index, ok)
    \/ \E top \in FormAnswers, typed \in FieldValues \cup {None}, ok \in BOOLEAN :
          NumInput(top, typed, ok)
    \/ \E fuel_index \in 1..Len(fuel_options), ok \in BOOLEAN : FuelType(fuel_index, ok)

SpecForm == InitForm /\ [][NextForm]_vars

(* ------------------------------------------- get_value, one call at a time *)

\* a frame of get_value(cell): at "try" before ev.evaluate, at "fallback" while
\* calculate_fallback(cell) runs
GetFrame(cell, at) == [fn |-> "get_value", cell |-> cell, at |-> at, done |-> 0]

\* a frame of calculate_fallback(cell) that has made `done` of its get_value calls
FallbackFrame(cell, done) ==
    [fn |-> "calculate_fallback", cell |-> cell, at |-> "body", done |-> done]

Top == stack[Len(stack)]

Pop == SubSeq(stack, 1, Len(stack) - 1)

\* frames a run may hold before it counts as runaway recursion
MaxDepth == 12

\* a caller (the display code, a widget) calls get_value(cell)
Enter(cell) ==
    /\ stack = <<>>
    /\ stack' = <<GetFrame(cell, "try")>>
    /\ UNCHANGED <<sheet, ev, callVars, cascadeVars, formVars>>

\* lines 63-70: the evaluator answers with a number and get_value returns it, or
\* it raises or answers something else and calculate_fallback(cell) is called
TryEvaluator(number) ==
    /\ stack # <<>> /\ Top.fn = "get_value" /\ Top.at = "try"
    /\ stack' = IF number THEN Pop
                ELSE Pop \o <<GetFrame(Top.cell, "fallback"), FallbackFrame(Top.cell, 0)>>
    /\ UNCHANGED <<sheet, ev, callVars, cascadeVars, formVars>>

\* lines 85-135: calculate_fallback returns None at the guard, or makes its next
\* get_value call, or returns its formula's value after the last one
FallbackStep ==
    /\ stack # <<>> /\ Top.fn = "calculate_fallback"
    /\ LET cell == Top.cell
       IN  IF NoVoyageDays(sheet) \/ Top.done = Len(Calls(cell))
           THEN stack' = Pop
           ELSE /\ Len(stack) < MaxDepth
                /\ stack' = Pop \o <<FallbackFrame(cell, Top.done + 1),
                                     GetFrame(Calls(cell)[Top.done + 1], "try")>>
    /\ UNCHANGED <<sheet, ev, callVars, cascadeVars, formVars>>

\* lines 71-75: calculate_fallback has returned; get_value writes the value back
\* or reads the cached one, and returns
Return ==
    /\ stack # <<>> /\ Top.fn = "get_value" /\ Top.at = "fallback"
    /\ stack' = Pop
    /\ UNCHANGED <<sheet, ev, callVars, cascadeVars, formVars>>

Running == TryEvaluator(TRUE) \/ TryEvaluator(FALSE) \/ FallbackStep \/ Return

InitCalls ==
    /\ \E days \in {Whole(0), Whole(1)} :
          /\ sheet = InitSheet(days, Whole(4))
          /\ ev = InitSheet(days, Whole(4))
    /\ InitRun

NextCalls ==
    \/ \E cell \in Cells : Enter(cell)
    \/ \E number \in BOOLEAN : TryEvaluator(number)
    \/ FallbackStep
    \/ Return

\* the interpreter keeps executing a call that has begun
SpecCalls == InitCalls /\ [][NextCalls]_vars /\ WF_vars(Running)

(* ------------------------------------------------ the formula table (4.2) *)

\* an Input read as a number: absent or non-numeric counts as 0
AsNumber(v) ==
    IF v.k = "num" THEN v
    ELSE IF v.k = "text" /\ v.d # 0 THEN Num(v.n, v.d) ELSE Whole(0)

\* the value of metric m's formula on the Inputs held in sh
RECURSIVE Formula(_, _)
Formula(m, sh) ==
    LET in(c)    == AsNumber(sh[c])
        days     == Add(in("B16"), in("B17"))
        fuel     == Add(Mul(in("B10"), in("B16")), Mul(in("B11"), in("B17")))
        share    == Add(in("B12"), Mul(in("B13"), Num(1, 2)))
        F(c)     == Formula(c, sh)
    IN  CASE m = "B18" -> Add(Mul(in("B16"), in("B7")), Mul(in("B17"), in("B8")))
          [] m = "E6"  -> Div(fuel, days)
          [] m = "E7"  -> Mul(fuel, FuelCoefficient[CfRow(sh["B19"]) + 1])
          [] m = "E8"  -> Mul(F("E7"), Sub(Whole(1), in("B21")))
          [] m = "E9"  -> Sub(F("E7"), F("E8"))
          [] m = "E10" -> Mul(F("E7"), share)
          [] m = "E11" -> Mul(Mul(F("E10"), in("B26")), Num(4, 10))
          [] m = "E12" -> Mul(F("E9"), share)
          [] m = "E13" -> Mul(F("E7"), Num(150419, 100000))
          [] m = "E14" -> Mul(F("E13"), Num(9588, 10000))
          [] m = "E15" -> Sub(F("E13"), F("E14"))
          [] m = "E16" -> Mul(Mul(F("E15"), in("B26")), Num(4, 10))
          [] m = "E17" -> Mul(Mul(F("E15"), in("B26")), Num(7, 10))
          [] m \in {"E18", "E19"} -> Mul(F("E15"), in("B26"))
          [] m = "E21" -> Mul(Mul(F("E7"), in("B23")), in("B26"))

\* the Inputs metric m's formula depends on, directly or through other metrics
InputsOf(m) ==
    LET e7 == {"B10", "B11", "B16", "B17", "B19"}
    IN  CASE m = "B18" -> {"B7", "B8", "B16", "B17"}
          [] m = "E6"  -> {"B10", "B11", "B16", "B17"}
          [] m \in {"E7", "E13", "E14", "E15"} -> e7
          [] m \in {"E8", "E9"} -> e7 \cup {"B21"}
          [] m = "E10" -> e7 \cup {"B12", "B13"}
          [] m = "E11" -> e7 \cup {"B12", "B13", "B26"}
          [] m = "E12" -> e7 \cup {"B12", "B13", "B21"}
          [] m \in {"E16", "E17", "E18", "E19"} -> e7 \cup {"B26"}
          [] m = "E21" -> e7 \cup {"B23", "B26"}
          [] OTHER -> {}

\* the primary evaluator yields a number for the resolve recorded in op, given
\* its backing state e
PrimaryNumber(op, e) == op.top \in {"stored", "wrapped"} /\ e[op.cell].k = "num"

\* the last cached value of cell c in sh when numeric, else absent
Cached(sh, c) == IF sh[c].k = "num" THEN sh[c] ELSE None

ZeroDays(sh) == sh["B16"] = Whole(0) /\ sh["B17"] = Whole(0)

\* sea_days + port_days = 0, the Inputs read as numbers
DaysSumZero(sh) == Add(AsNumber(sh["B16"]), AsNumber(sh["B17"])) = Whole(0)

Resolved == last.op = "resolve"

Assigned == last.op = "assign"

(* ------------------------------------------------------------------ C1 *)

\* C1 (as stated): with sea_days = port_days = 0, resolve(m) returns absent for
\* every Derived Metric m, whatever the evaluator answers and whatever is cached.
C1_AlwaysAbsent ==
    (Resolved /\ last.cell \in FormulaCells /\ ZeroDays(sheet)) => last.res = None

\* C1 (amended): with sea_days = port_days = 0 the fallback formula of every
\* Derived Metric yields absent, so resolve(m) is never answered by tier 2: it
\* returns the evaluator's number when there is one, else the cached value of m
\* when that is numeric, and absent only when neither exists.
C1_FallbackAbsent ==
    (Resolved /\ last.cell \in FormulaCells /\ ZeroDays(sheet)) =>
        /\ last.tier \in {1, 3}
        /\ last.tier = 1 => last.res.k = "num"
        /\ last.tier = 3 => last.res = Cached(sheet, last.cell)
        /\ last.res = None <=> (last.tier = 3 /\ sheet[last.cell].k # "num")

\* C1 witness: days are zero, the evaluator gave no number, and resolve returned
\* the cached number of a Derived Metric
C1_Witness ==
    /\ Resolved /\ last.cell = "E16" /\ ZeroDays(sheet)
    /\ last.tier = 3 /\ last.res = Whole(4)

(* ------------------------------------------------------------------ C2 *)

AssignThenResolve ==
    /\ prev.op = "assign" /\ prev.val.k = "num"
    /\ Resolved /\ last.cell = prev.cell

\* C2 (as stated): assign(m, v) followed immediately by resolve(m) returns v,
\* for every metric m and numeric v.
C2_ReadsBack == AssignThenResolve => last.res = prev.val

\* C2 (amended): assign(m, v) followed immediately by resolve(m) returns v
\* whenever the evaluator yields no number for m and m's fallback formula yields
\* absent (m is an Input, or sea_days + port_days = 0); otherwise the evaluator's
\* number, or else the formula's value, is returned instead.
C2_ReadsBackFromCache ==
    AssignThenResolve =>
        /\ (last.tier # 1 /\ (last.cell \in InputCells \/ DaysSumZero(sheet)))
              => (last.tier = 3 /\ last.res = prev.val)
        /\ (last.tier # 1 /\ last.cell \in FormulaCells /\ ~DaysSumZero(sheet))
              => last.tier = 2

\* C2 witness: a number assigned to an Input is read back through the cache
C2_Witness ==
    /\ AssignThenResolve /\ last.cell = "B26" /\ last.tier = 3
    /\ last.res = Whole(2)

(* ------------------------------------------------------------------ C3 *)

\* what one resolve step must do, tier by tier; bothStores says whether the
\* tier-2 write-back must reach the evaluator's store even when its write raises
TierOrder(bothStores) ==
    (last'.op = "resolve" /\ nops' = nops + 1) =>
        LET m == last'.cell
        IN  IF PrimaryNumber(last', ev)
            THEN /\ last'.tier = 1 /\ last'.res = ev[m]
                 /\ sheet' = sheet /\ ev' = ev
            ELSE IF m \in FormulaCells /\ ~DaysSumZero(sheet)
            THEN /\ last'.tier = 2 /\ last'.res.k = "num"
                 /\ sheet'[m] = last'.res
                 /\ (bothStores \/ last'.ok) => ev'[m] = last'.res
            ELSE /\ last'.tier = 3 /\ last'.res = Cached(sheet, m)
                 /\ sheet' = sheet /\ ev' = ev

\* C3 (as stated): tier 1 returns the evaluator's number and writes nothing;
\* else a number from the fallback formula is written back to both stores and
\* returned; else the cached value when numeric, or absent.
C3_TiersBothStores == [][TierOrder(TRUE)]_vars

\* C3 (amended): as stated, except that the tier-2 write-back always reaches
\* the fallback store and reaches the evaluator's store only when the
\* evaluator's write does not raise.
C3_Tiers == [][TierOrder(FALSE)]_vars

\* C3 witness: a tier-2 answer written back to both stores
C3_Witness ==
    /\ Resolved /\ last.cell = "E9" /\ last.tier = 2 /\ last.ok
    /\ sheet["E9"] = last.res /\ ev["E9"] = last.res /\ last.res # Whole(4)

(* ------------------------------------------------------------------ C7 *)

\* C7 (as stated): assign(m, v) leaves both stores holding v whatever the
\* evaluator's write does, and repeating it changes nothing.
AssignBoth ==
    (last'.op = "assign" /\ nops' = nops + 1) =>
        /\ sheet'[last'.cell] = last'.val
        /\ ev'[last'.cell] = last'.val
        /\ (last.op = "assign" /\ last.cell = last'.cell /\ last.val = last'.val)
              => (sheet' = sheet /\ ev' = ev)

C7_BothStores == [][AssignBoth]_vars

\* C7 (amended): assign(m, v) always succeeds and leaves the fallback store
\* holding v and every other cell of both stores untouched; the evaluator's
\* store holds v when its write does not raise and is unchanged when it raises;
\* repeating the assign with the same write outcome changes nothing.
AssignEffect ==
    (last'.op = "assign" /\ nops' = nops + 1) =>
        LET m == last'.cell
        IN  /\ sheet' = [sheet EXCEPT ![m] = last'.val]
            /\ ev' = IF last'.ok THEN [ev EXCEPT ![m] = last'.val] ELSE ev
            /\ (last.op = "assign" /\ last.cell = m /\ last.val = last'.val
                   /\ last.ok = last'.ok) => (sheet' = sheet /\ ev' = ev)

C7_Assign == [][AssignEffect]_vars

\* C7 witness: the same assign twice, the evaluator rejecting the write both times
C7_Witness ==
    /\ Assigned /\ prev.op = "assign" /\ prev.cell = last.cell /\ prev.val = last.val
    /\ ~last.ok /\ ~prev.ok /\ sheet[last.cell] = last.val /\ ev[last.cell] # last.val

(* ------------------------------------------------------------------ C8 *)

InputReassigned ==
    /\ Resolved /\ last.cell \in FormulaCells \ {"B18"}
    /\ prev.op = "assign" /\ prev.cell \in InputsOf(last.cell)

\* C8 (as stated): after an Input of m is reassigned, a resolve(m) answered by
\* tier 1 or tier 2 returns m's formula on the current Inputs.
C8_NeverStale ==
    (InputReassigned /\ last.tier \in {1, 2}) => last.res = Formula(last.cell, sheet)

\* C8 (amended): a resolve(m) answered by tier 2 in which no nested resolve was
\* answered by the evaluator returns m's formula on the Inputs currently in the
\* fallback store (absent or non-numeric Inputs read as 0); an answer of the
\* evaluator, for m or for a metric m depends on, may be stale.
C8_FallbackFresh ==
    (Resolved /\ last.cell \in FormulaCells /\ last.tier = 2 /\ ~last.sub1)
        => last.res = Formula(last.cell, sheet)

\* C8 witness: sea_days was reassigned and the next resolve recomputed a metric
\* whose cached value was stale
C8_Witness ==
    /\ InputReassigned /\ prev.cell = "B16" /\ prev.val = Whole(2)
    /\ last.cell = "E15" /\ last.tier = 2 /\ ~last.sub1
    /\ last.res = Formula("E15", sheet) /\ last.res # Whole(4)

(* ------------------------------------------------------------------ C4 *)

\* the (rule, record) pairs in which the rule finds a match in the record's name
Hits(items, patterns) ==
    {h \in (1..Len(patterns)) \X (1..Len(items)) :
        NameMatches(patterns[h[1]], items[h[2]])}

\* the record of the least hit, rules compared first and records second
FirstHit(items, patterns) ==
    LET H == Hits(items, patterns)
    IN  IF H = {} THEN NoItem
        ELSE LET h == CHOOSE x \in H :
                        \A y \in H : x[1] < y[1] \/ (x[1] = y[1] /\ x[2] <= y[2])
             IN  items[h[2]]

\* the name contains "eua" in any letter case
ContainsEua(name) ==
    \E i \in 1..Len(name) : At(LowerAll(name), i, <<"e","u","a">>)

Names(items) == {items[i].name : i \in 1..Len(items)}

Fetched == hist.fetch = "ok"

\* C4: select(records) is the first match of the primary rules, rule order
\* before record order; the fallback rules apply, first match again, only when no
\* primary rule matches any record; the result is absent exactly when no rule
\* matches any record. "EUA Spot", "EUA 3M", "EUA Dec-25" in any order give the
\* "EUA 3M" record, "EUA Spot" alone gives itself, and a list with no name
\* containing "eua" gives absent.
C4_FirstMatch ==
    Fetched =>
        /\ vertis_item = IF Hits(prices, EUA_3M_PATTERNS) # {}
                         THEN FirstHit(prices, EUA_3M_PATTERNS)
                         ELSE FirstHit(prices, EUA_FALLBACK_PATTERNS)
        /\ vertis_item = NoItem <=>
              Hits(prices, EUA_3M_PATTERNS \o EUA_FALLBACK_PATTERNS) = {}
        /\ Names(prices) = {EuaSpot, Eua3M, EuaDec25} => vertis_item.name = Eua3M
        /\ Names(prices) = {EuaSpot} => vertis_item = prices[1]
        /\ (\A name \in Names(prices) : ~ContainsEua(name)) => vertis_item = NoItem

\* C4 witness: a later record wins because an earlier rule matches it, the
\* earlier record matching only a later rule
C4_Witness ==
    /\ Fetched /\ Len(prices) = 3
    /\ prices[1].name = EuaSpot /\ prices[2].name = EuaQ1 /\ prices[3].name = Eua3M
    /\ vertis_item = prices[3]

(* ------------------------------------------------------------------ C5 *)

BothThrew == pc = "done" /\ hist.fetch = "raised" /\ hist.scrape = "failed"

\* C5 (as stated): when the primary fetch throws and the secondary scrape
\* throws, the cascade ends with eua_price = 67.6 and no source label, from every
\* initial state of eua_price.
C5_AlwaysDefault ==
    BothThrew => (sheet["B26"] = DefaultPrice /\ autofill_source = "None")

\* C5 (amended): when the primary fetch throws and the secondary scrape throws,
\* the cascade ends with no source label; eua_price ends at 67.6 when
\* resolve(eua_price) is absent at the last step, that is when the evaluator
\* yields no number for it and its stored value is missing or non-numeric, and
\* otherwise both stores keep the eua_price they began with.
C5_DefaultWhenAbsent ==
    BothThrew =>
        /\ autofill_source = "None"
        /\ last.res = None <=>
              (~PrimaryNumber(last, "B26" :> hist.estart) /\ hist.start.k # "num")
        /\ IF last.res = None
           THEN /\ sheet["B26"] = DefaultPrice /\ hist.wrote = <<"default">>
                /\ ev["B26"] = IF last.ok THEN DefaultPrice ELSE hist.estart
           ELSE /\ sheet["B26"] = hist.start /\ ev["B26"] = hist.estart
                /\ hist.wrote = <<>>

\* C5 witness: both fetches threw, eua_price was a text, and the default was set
C5_Witness ==
    /\ BothThrew /\ hist.start = Text("tbd") /\ last.res = None
    /\ sheet["B26"] = DefaultPrice /\ autofill_source = "None"

(* ------------------------------------------------------------------ C6 *)

\* C6: the steps run in the order Primary, Secondary, Default; at most one of
\* them assigns eua_price; after a step has assigned, the scrape is not made and
\* no later step assigns; the label is the primary one exactly when Primary
\* assigned, the secondary one exactly when Secondary assigned, none otherwise.
C6_OneStepAssigns ==
    /\ Len(hist.wrote) <= 1
    /\ (autofill_source = "Vertis 3-Month") <=> (hist.wrote = <<"primary">>)
    /\ (autofill_source = "EEX Spot") <=> (hist.wrote = <<"secondary">>)
    /\ (autofill_source = "None") <=> (hist.wrote \in {<<>>, <<"default">>})
    /\ (hist.wrote = <<"primary">> /\ pc \in {"default", "done"})
          => hist.scrape = "skipped"
    /\ hist.scrape \in {"ok", "failed"} => "primary" \notin Range(hist.wrote)
    /\ hist.wrote # <<>> => hist.fetch # "no"
    /\ "secondary" \in Range(hist.wrote) => hist.scrape = "ok"
    /\ "default" \in Range(hist.wrote) => pc = "done"

\* C6 witness: the fetch gave no usable price, the scrape assigned, and the
\* default step found eua_price set
C6_Witness ==
    /\ pc = "done" /\ hist.fetch = "ok" /\ vertis_item # NoItem
    /\ hist.wrote = <<"secondary">>
    /\ autofill_source = "EEX Spot" /\ sheet["B26"] = Num(681, 10)

(* ------------------------------------------------------------------ C9 *)

PassDone == fpc = FormDone

\* C9 (as stated): when ship_type, selected_fuel_type, nm_per_sea_day,
\* nm_per_port_day, fuel_sea, fuel_port, sea_days or port_days is reassigned
\* during the pass, annual_distance is recomputed, and after the pass the stored
\* annual_distance equals sea_days*nm_per_sea_day + port_days*nm_per_port_day.
C9_EagerRecompute ==
    (PassDone /\ fhist.set \cap {"B6", "B19", "B7", "B8", "B10", "B11", "B16", "B17"} # {})
        => sheet["B18"] = Formula("B18", sheet)

\* C9 (amended): annual_distance is recomputed and stored right after a
\* reassignment of ship_type, nm_per_sea_day, nm_per_port_day, sea_days or
\* port_days, and of no other Input; from then on, unless the annual_distance
\* field itself is edited, the stored annual_distance equals
\* sea_days*nm_per_sea_day + port_days*nm_per_port_day for the current Inputs
\* when sea_days + port_days is not zero, and is absent when it is zero.
C9_RecomputeOnDistanceInputs ==
    /\ fhist.recomputed <=> (fhist.set \cap ({"B6"} \cup RecomputeCells) # {})
    /\ (fhist.recomputed /\ ~fhist.edited) =>
          sheet["B18"] = IF DaysSumZero(sheet) THEN None ELSE Formula("B18", sheet)

\* C9 witness: only sea_days was changed in the pass, and the stale annual
\* distance was replaced by the formula's value
C9_Witness ==
    /\ PassDone /\ fhist.set = {"B16"} /\ sheet["B16"] = Whole(2)
    /\ sheet["B18"] = Whole(3) /\ sheet["B18"] = Formula("B18", sheet)

(* ----------------------------------------------------------------- C10 *)

\* the rank of a metric in the order of the formula table; Inputs rank lowest
Rank(cell) ==
    IF cell \in FormulaCells
    THEN CHOOSE i \in 1..Len(FormulaOrder) : FormulaOrder[i] = cell
    ELSE 0

\* every get_value in progress below a calculate_fallback is for a metric of
\* strictly lower rank than that formula's
CallsDescend ==
    \A i \in 2..Len(stack) :
        IF stack[i].fn = "get_value"
        THEN /\ stack[i - 1].fn = "calculate_fallback"
             /\ Rank(stack[i].cell) < Rank(stack[i - 1].cell)
        ELSE stack[i - 1] = GetFrame(stack[i].cell, "fallback")

\* C10: every fallback formula calls resolve only on metrics of strictly lower
\* rank in the order of the formula table, the recursion never goes deeper than
\* one resolve and one formula per metric, and every resolve that has begun
\* returns, whatever the evaluator answers at each call.
C10_Terminates ==
    /\ [](CallsDescend /\ Len(stack) < MaxDepth)
    /\ (stack # <<>>) ~> (stack = <<>>)

\* C10 witness: the deepest recursion, savings_2025 down to annex2_co2 through the
\* second call of co2e_reduction, every evaluator call having failed
C10_Witness ==
    /\ Len(stack) = 10 /\ stack[1].cell = "E16" /\ stack[6] = FallbackFrame("E14", 1)
    /\ Top = FallbackFrame("E7", 0)
====
